---- MODULE Spec2Model ----
(***************************************************************************)
(* Twitch AFK Watcher (src/twitch_afk.py): the scheduled-job registry       *)
(* (TwitchAFKWatcher.scheduled_jobs), the scheduler thread that polls the   *)
(* `schedule` library once a second, and the launcher (_afk_watch) that     *)
(* blocks in subprocess.run.                                                *)
(*                                                                          *)
(* Three kinds of thread take steps: the Tk thread (button handlers and     *)
(* the callbacks queued with master.after), the scheduler daemon thread     *)
(* (_run_scheduler) and one daemon worker per "Start Watching Now".         *)
(* Texts are sequences of one-character strings, so that strip(), strptime  *)
(* and the time check of schedule's at() are computed, not assumed.         *)
(* Times are seconds since 00:00:00 of day 0.                               *)
(***************************************************************************)
EXTENDS Integers, Sequences, FiniteSets, TLC

VARIABLES
    now,            \* wall clock (seconds since day 0, 00:00:00)
    scheduled_jobs, \* self.scheduled_jobs: list of {time, channel, quality, job}
    jobs,           \* schedule.default_scheduler.jobs: list of Job objects (ids)
    job_obj,        \* the Job objects ever created, by id
    ui_pc,          \* position of the Tk thread inside a button handler
    ui_entry,       \* the handler's local: the entry being added or cancelled
    ui_note,        \* the message box (or traceback) a button handler is showing
    after_queue,    \* callbacks queued with master.after(0, ...), not yet run
    sched_pc,       \* position of the scheduler thread
    scan_i,         \* run_pending: index of the generator over self.jobs
    runnable,       \* run_pending: the due jobs collected so far
    pending,        \* run_pending: sorted due jobs still to run in this pass
    pass_done,      \* the thread is in time.sleep(1) after a pass made at `now`
    launches,       \* the calls of _afk_watch waiting in subprocess.run
    fired           \* the jobs launched in the current minute, in order (history)

vars == <<now, scheduled_jobs, jobs, job_obj, ui_pc, ui_entry, ui_note,
          after_queue, sched_pc, scan_i, runnable, pending, pass_done, launches, fired>>

----------------------------------------------------------------------------
(* Bounds of the model *)

\* number of Job objects ever created (successful schedule...do() calls)
MaxAdds == 2
\* number of "Start Watching Now" launches in flight at a time
MaxStartNow == 1
\* the clock runs over days 0..MaxDay
MaxDay == 1
\* number of Job objects ever created when only the Tk thread takes steps
MaxListed == 3

----------------------------------------------------------------------------
(* Texts *)

Digits == {"0", "1", "2", "3", "4", "5", "6", "7", "8", "9"}

DigitVal(ch) ==
    CASE ch = "0" -> 0 [] ch = "1" -> 1 [] ch = "2" -> 2 [] ch = "3" -> 3
      [] ch = "4" -> 4 [] ch = "5" -> 5 [] ch = "6" -> 6 [] ch = "7" -> 7
      [] ch = "8" -> 8 [] ch = "9" -> 9 [] OTHER -> 0

\* the quality_options of the read-only combobox
Qualities == {"best", "high", "medium", "low", "worst"}

\* what the widgets may hold when a button is clicked: the text of
\* channel_entry and the value of quality_var
Forms ==
    { [channel |-> <<>>, quality |-> "best"],
      [channel |-> <<" ">>, quality |-> "high"],
      [channel |-> <<"a">>, quality |-> "best"],
      [channel |-> <<" ", "b", " ">>, quality |-> "low"] }

\* what simpledialog.askstring may return; <<>> also stands for a dismissed
\* prompt (None): the handler tests `if time_input:` and both are falsy
TimeTexts ==
    { <<>>,
      <<"1", "8", ":", "3", "0">>,
      <<"9", ":", "3", "0">>,
      <<"2", "4", ":", "0", "0">>,
      <<"1", "8", ":", "6", "0">>,
      <<"1", "8", "3", "0">> }

RECURSIVE LStrip(_)
LStrip(s) == IF s # <<>> /\ Head(s) = " " THEN LStrip(Tail(s)) ELSE s

RECURSIVE RStrip(_)
RStrip(s) ==
    IF s # <<>> /\ s[Len(s)] = " " THEN RStrip(SubSeq(s, 1, Len(s) - 1)) ELSE s

\* str.strip()
Strip(s) == RStrip(LStrip(s))

----------------------------------------------------------------------------
(* Time texts *)

HourOk2(a, b) ==
    \/ a = "2" /\ b \in {"0", "1", "2", "3"}
    \/ a \in {"0", "1"} /\ b \in Digits

MinuteOk2(a, b) == a \in {"0", "1", "2", "3", "4", "5"} /\ b \in Digits

\* datetime.datetime.strptime(t, "%H:%M") returns (TRUE) or raises ValueError
\* (FALSE). %H is the pattern 2[0-3]|[0-1]\d|\d and %M is [0-5]\d|\d: one or
\* two digits each, and nothing may follow the minute.
Strptime(t) ==
    \E hl \in {1, 2}, ml \in {1, 2} :
        /\ Len(t) = hl + 1 + ml
        /\ t[hl + 1] = ":"
        /\ IF hl = 2 THEN HourOk2(t[1], t[2]) ELSE t[1] \in Digits
        /\ IF ml = 2 THEN MinuteOk2(t[hl + 2], t[hl + 3]) ELSE t[hl + 2] \in Digits

\* Job.at(t) of a daily job accepts HH:MM and HH:MM:SS, two digits each, hour
\* 00..23, and raises ScheduleValueError otherwise. ScheduleValueError derives
\* from Exception, not from ValueError.
JobAtAccepts(t) ==
    /\ Len(t) \in {5, 8}
    /\ t[1] \in {"0", "1", "2"} /\ t[2] \in Digits
    /\ t[3] = ":"
    /\ MinuteOk2(t[4], t[5])
    /\ Len(t) = 8 => (t[6] = ":" /\ MinuteOk2(t[7], t[8]))
    /\ 10 * DigitVal(t[1]) + DigitVal(t[2]) <= 23

\* the time of day, in seconds, that Job.at(t) stores in at_time
AtTime(t) ==
    (10 * DigitVal(t[1]) + DigitVal(t[2])) * 3600
    + (10 * DigitVal(t[4]) + DigitVal(t[5])) * 60
    + (IF Len(t) = 8 THEN 10 * DigitVal(t[7]) + DigitVal(t[8]) ELSE 0)

----------------------------------------------------------------------------
(* Clock *)

SecondsPerDay == 86400

TimeOfDay(t) == t % SecondsPerDay

DayOf(t) == t \div SecondsPerDay

MinuteOf(t) == t \div 60

Hms(h, m, s) == h * 3600 + m * 60 + s

\* the instants of a day at which the model looks at the program
ClockTimesOfDay ==
    { Hms(18, 29, 59), Hms(18, 30, 0), Hms(18, 30, 59), Hms(18, 31, 0) }

TimePoints == { d * SecondsPerDay + tod : d \in 0..MaxDay, tod \in ClockTimesOfDay }

FirstTime == CHOOSE t \in TimePoints : \A u \in TimePoints : t <= u

LaterTimes(t) == { u \in TimePoints : u > t }

NextTime(t) == CHOOSE u \in LaterTimes(t) : \A w \in LaterTimes(t) : u <= w

\* mutant: an occurrence at t itself counts as the next one
NextRun_AtOrAfter(at, t) ==
    IF at >= TimeOfDay(t)
    THEN DayOf(t) * SecondsPerDay + at
    ELSE (DayOf(t) + 1) * SecondsPerDay + at

\* Job._schedule_next_run of a daily job with at_time `at`, computed at time
\* t: the first occurrence of `at` strictly after t
NextRun(at, t) ==
    IF at > TimeOfDay(t)
    THEN DayOf(t) * SecondsPerDay + at
    ELSE (DayOf(t) + 1) * SecondsPerDay + at

----------------------------------------------------------------------------
(* Values *)

\* Python's None, where the model needs it among integers (the result of a
\* dismissed askinteger)
None == -1

\* the `job` of a launch that no scheduled job triggered (Start Watching Now)
NoJob == 0

NoEntry == [time |-> <<>>, channel |-> <<>>, quality |-> "best", job |-> NoJob]

Note(kind, title) == [kind |-> kind, title |-> title]

\* how subprocess.run(..., check=True) can end inside _afk_watch
Outcomes == {"Success", "ToolExitedWithCode", "ToolNotFound", "UnexpectedFailure"}

\* the message box _afk_watch queues for each outcome
OutcomeNote(o) ==
    CASE o = "Success" -> Note("info", "Success")
      [] o = "ToolExitedWithCode" -> Note("error", "Streamlink Error")
      [] o = "ToolNotFound" -> Note("error", "Error")
      [] OTHER -> Note("error", "Error")

\* list.pop(i) / list.remove(x) on sequences
RemoveAt(seq, i) == SubSeq(seq, 1, i - 1) \o SubSeq(seq, i + 1, Len(seq))

RECURSIVE RemoveFirst(_, _)
RemoveFirst(seq, x) ==
    IF seq = <<>> THEN <<>>
    ELSE IF Head(seq) = x THEN Tail(seq)
    ELSE <<Head(seq)>> \o RemoveFirst(Tail(seq), x)

\* Job.__lt__ compares next_run; sorted() is stable
RECURSIVE InsertByNextRun(_, _, _)
InsertByNextRun(seq, j, objs) ==
    IF seq = <<>> THEN <<j>>
    ELSE IF objs[j].next_run < objs[Head(seq)].next_run THEN <<j>> \o seq
    ELSE <<Head(seq)>> \o InsertByNextRun(Tail(seq), j, objs)

RECURSIVE SortedByNextRun(_, _)
SortedByNextRun(seq, objs) ==
    IF seq = <<>> THEN <<>>
    ELSE InsertByNextRun(SortedByNextRun(SubSeq(seq, 1, Len(seq) - 1), objs),
                         seq[Len(seq)], objs)

LaunchesOf(j) == { l \in launches : l.job = j }

Range(seq) == { seq[i] : i \in DOMAIN seq }

\* the Jobs whose cancellation has completed: schedule.cancel_job removed
\* them from the scheduler's jobs (a Job is in that list from its creation)
Cancelled == { j \in DOMAIN job_obj : j \notin Range(jobs) }

----------------------------------------------------------------------------
(* Initial state: after TwitchAFKWatcher.__init__ *)

Init ==
    /\ now = FirstTime
    /\ scheduled_jobs = <<>>
    /\ jobs = <<>>
    /\ job_obj = <<>>
    /\ ui_pc = "idle"
    /\ ui_entry = NoEntry
    /\ ui_note = Note("none", "")
    /\ after_queue = <<>>
    /\ sched_pc = "sleep"
    /\ scan_i = 0
    /\ runnable = <<>>
    /\ pending = <<>>
    /\ pass_done = FALSE
    /\ launches = {}
    /\ fired = <<>>

----------------------------------------------------------------------------
(* The launcher *)

\* the number of a new launch of job j in launches: the first one not in use
FreshN(j) ==
    CHOOSE n \in 1..(Cardinality(LaunchesOf(j)) + 1) :
        /\ \A l \in LaunchesOf(j) : l.n # n
        /\ \A m \in 1..(n - 1) : \E l \in LaunchesOf(j) : l.n = m

\* _afk_watch up to and including the call of subprocess.run, on `thread` for
\* job j: it queues the "Starting Stream" box and starts to wait for the tool
AfkWatchBegin(j, channel, quality, thread) ==
    /\ launches' = launches \cup
          { [job |-> j, n |-> FreshN(j),
             channel |-> channel, quality |-> quality, thread |-> thread] }
    /\ after_queue' = Append(after_queue, Note("info", "Starting Stream"))

\* _afk_watch from the return of subprocess.run: one message box is queued
\* for the outcome, and no exception leaves the function
AfkWatchEnd(l, o) ==
    /\ launches' = launches \ {l}
    /\ after_queue' = Append(after_queue, OutcomeNote(o))

----------------------------------------------------------------------------
(* The Tk thread: button handlers *)

\* messagebox.showinfo / showwarning / showerror as the last statement of a
\* handler: the box is modal and the handler returns when it is dismissed
ShowBox(kind, title) ==
    /\ ui_note' = Note(kind, title)
    /\ ui_pc' = "dialog"

\* the user dismisses the box; the handler returns to the Tk main loop
DismissBox ==
    /\ ui_pc = "dialog"
    /\ ui_pc' = "idle"
    /\ ui_note' = Note("none", "")
    /\ UNCHANGED <<now, scheduled_jobs, jobs, job_obj, ui_entry, after_queue,
                   sched_pc, scan_i, runnable, pending, pass_done, launches, fired>>

\* No message box is open, no exception is being reported and no queued
\* callback waits. Showing a queued box, dismissing a box and printing a
\* traceback change nothing that another step reads, so the model lets them
\* happen before any other step.
TkQuiet == ui_pc \notin {"dialog", "exception"} /\ after_queue = <<>>

\* an exception has left a handler: Tk's callback wrapper prints the
\* traceback to stderr and the main loop goes on
ReportCallbackException ==
    /\ ui_pc = "exception"
    /\ ui_pc' = "idle"
    /\ ui_note' = Note("none", "")
    /\ UNCHANGED <<now, scheduled_jobs, jobs, job_obj, ui_entry, after_queue,
                   sched_pc, scan_i, runnable, pending, pass_done, launches, fired>>

WorkersInFlight == { l \in launches : l.thread = "worker" }

\* mutant: the channel is used as typed, without strip()
OnClickStart_NoStrip(c, q) ==
    /\ ui_pc = "idle"
    /\ TkQuiet
    /\ IF c # <<>>
       THEN /\ Cardinality(WorkersInFlight) < MaxStartNow
            /\ AfkWatchBegin(NoJob, c, q, "worker")
            /\ UNCHANGED <<ui_pc, ui_note>>
       ELSE /\ ShowBox("warning", "Input Error")
            /\ UNCHANGED <<launches, after_queue>>
    /\ UNCHANGED <<now, scheduled_jobs, jobs, job_obj, ui_entry, sched_pc, scan_i,
                   runnable, pending, pass_done, fired>>

\* mutant: _afk_watch is called by the handler itself, on the Tk thread
OnClickStart_Inline(c, q) ==
    /\ ui_pc = "idle"
    /\ TkQuiet
    /\ LET channel == Strip(c) IN
       IF channel # <<>>
       THEN /\ Cardinality(WorkersInFlight) < MaxStartNow
            /\ AfkWatchBegin(NoJob, channel, q, "tk")
            /\ UNCHANGED <<ui_pc, ui_note>>
       ELSE /\ ShowBox("warning", "Input Error")
            /\ UNCHANGED <<launches, after_queue>>
    /\ UNCHANGED <<now, scheduled_jobs, jobs, job_obj, ui_entry, sched_pc, scan_i,
                   runnable, pending, pass_done, fired>>

\* _on_click_start with the entry widget holding c and the combobox q: a
\* non-empty channel starts a daemon thread that runs _afk_watch
OnClickStart(c, q) ==
    /\ ui_pc = "idle"
    /\ TkQuiet
    /\ LET channel == Strip(c) IN
       IF channel # <<>>
       THEN /\ Cardinality(WorkersInFlight) < MaxStartNow
            /\ AfkWatchBegin(NoJob, channel, q, "worker")
            /\ UNCHANGED <<ui_pc, ui_note>>
       ELSE /\ ShowBox("warning", "Input Error")
            /\ UNCHANGED <<launches, after_queue>>
    /\ UNCHANGED <<now, scheduled_jobs, jobs, job_obj, ui_entry, sched_pc, scan_i,
                   runnable, pending, pass_done, fired>>

\* schedule.every().day.at(t).do(self._afk_watch, channel=, quality=): a new
\* Job whose next_run is the first occurrence of t after now is appended to
\* the scheduler's jobs. `issued` is the number under which the entry is
\* first listed (history; the program does not store it).
ScheduleDo(t, channel, q) ==
    /\ job_obj' = Append(job_obj,
          [at_time |-> AtTime(t), next_run |-> NextRun(AtTime(t), now),
           channel |-> channel, quality |-> q,
           issued |-> Len(scheduled_jobs) + 1])
    /\ jobs' = Append(jobs, Len(job_obj) + 1)

\* _schedule_watch up to the return of ...do(): channel check, the askstring
\* prompt answered with t, strptime, and the creation of the schedule Job;
\* at most max_adds Jobs are ever created
ScheduleWatchWithin(c, q, t, max_adds) ==
    /\ ui_pc = "idle"
    /\ TkQuiet
    /\ LET channel == Strip(c) IN
       IF channel = <<>>
       THEN /\ ShowBox("warning", "Input Error")
            /\ UNCHANGED <<jobs, job_obj, ui_entry>>
       ELSE IF t = <<>>
       THEN /\ ShowBox("info", "Cancelled")
            /\ UNCHANGED <<jobs, job_obj, ui_entry>>
       ELSE IF ~Strptime(t)
       THEN \* except ValueError
            /\ ShowBox("error", "Invalid Time")
            /\ UNCHANGED <<jobs, job_obj, ui_entry>>
       ELSE IF ~JobAtAccepts(t)
       THEN \* ScheduleValueError is no ValueError: it leaves the handler
            \* and no box is shown
            /\ ui_note' = Note("traceback", "ScheduleValueError")
            /\ ui_pc' = "exception"
            /\ UNCHANGED <<jobs, job_obj, ui_entry>>
       ELSE /\ Len(job_obj) < max_adds
            /\ ScheduleDo(t, channel, q)
            /\ ui_entry' = [time |-> t, channel |-> channel, quality |-> q,
                             job |-> Len(job_obj) + 1]
            /\ ui_pc' = "append"
            /\ UNCHANGED ui_note
    /\ UNCHANGED <<now, scheduled_jobs, after_queue, sched_pc, scan_i, runnable,
                   pending, pass_done, launches, fired>>

\* _schedule_watch in the model of all threads
ScheduleWatch(c, q, t) == ScheduleWatchWithin(c, q, t, MaxAdds)

\* mutant: the entry is put at the front of the list
ScheduleWatchAppend_AtFront ==
    /\ ui_pc = "append"
    /\ scheduled_jobs' = <<ui_entry>> \o scheduled_jobs
    /\ ShowBox("info", "Scheduled")
    /\ ui_entry' = NoEntry
    /\ UNCHANGED <<now, jobs, job_obj, after_queue, sched_pc, scan_i, runnable,
                   pending, pass_done, launches, fired>>

\* _schedule_watch after ...do(): the entry is appended to scheduled_jobs and
\* the "Scheduled" box is shown
ScheduleWatchAppend ==
    /\ ui_pc = "append"
    /\ TkQuiet
    /\ scheduled_jobs' = Append(scheduled_jobs, ui_entry)
    /\ ShowBox("info", "Scheduled")
    /\ ui_entry' = NoEntry
    /\ UNCHANGED <<now, jobs, job_obj, after_queue, sched_pc, scan_i, runnable,
                   pending, pass_done, launches, fired>>

\* what simpledialog.askinteger(minvalue=0, maxvalue=n) can return: the
\* dialog does not close on a number outside 0..n
AskInteger(n) == {None} \cup (0..n)

\* the text of the "Scheduled Jobs" box: one numbered line per entry
JobList(reg) ==
    [i \in 1..Len(reg) |-> <<i, reg[i].channel, reg[i].quality, reg[i].time>>]

\* mutant: the number typed is used as the index into the list
ShowScheduledJobs_ZeroBased(cancel_choice) ==
    /\ ui_pc = "idle"
    /\ TkQuiet
    /\ IF scheduled_jobs = <<>>
       THEN /\ ShowBox("info", "Scheduled Jobs")
            /\ UNCHANGED <<scheduled_jobs, ui_entry>>
       ELSE /\ cancel_choice \in AskInteger(Len(scheduled_jobs))
            /\ IF cancel_choice # None /\ cancel_choice # 0
               THEN LET index_to_cancel == cancel_choice IN
                    IF 0 <= index_to_cancel /\ index_to_cancel < Len(scheduled_jobs)
                    THEN /\ ui_entry' = scheduled_jobs[index_to_cancel + 1]
                         /\ scheduled_jobs' = RemoveAt(scheduled_jobs, index_to_cancel + 1)
                         /\ ui_pc' = "cancel_job"
                         /\ UNCHANGED ui_note
                    ELSE /\ ShowBox("warning", "Invalid Input")
                         /\ UNCHANGED <<scheduled_jobs, ui_entry>>
               ELSE IF cancel_choice = 0
               THEN /\ ShowBox("info", "Cancelled")
                    /\ UNCHANGED <<scheduled_jobs, ui_entry>>
               ELSE UNCHANGED <<scheduled_jobs, ui_pc, ui_entry, ui_note>>
    /\ UNCHANGED <<now, jobs, job_obj, after_queue, sched_pc, scan_i, runnable,
                   pending, pass_done, launches, fired>>

\* _show_scheduled_jobs up to the return of scheduled_jobs.pop(); the list
\* box has been shown and dismissed before the askinteger prompt
ShowScheduledJobs(cancel_choice) ==
    /\ ui_pc = "idle"
    /\ TkQuiet
    /\ IF scheduled_jobs = <<>>
       THEN /\ ShowBox("info", "Scheduled Jobs")
            /\ UNCHANGED <<scheduled_jobs, ui_entry>>
       ELSE /\ cancel_choice \in AskInteger(Len(scheduled_jobs))
            /\ IF cancel_choice # None /\ cancel_choice # 0
               THEN LET index_to_cancel == cancel_choice - 1 IN
                    IF 0 <= index_to_cancel /\ index_to_cancel < Len(scheduled_jobs)
                    THEN /\ ui_entry' = scheduled_jobs[index_to_cancel + 1]
                         /\ scheduled_jobs' = RemoveAt(scheduled_jobs, index_to_cancel + 1)
                         /\ ui_pc' = "cancel_job"
                         /\ UNCHANGED ui_note
                    ELSE /\ ShowBox("warning", "Invalid Input")
                         /\ UNCHANGED <<scheduled_jobs, ui_entry>>
               ELSE IF cancel_choice = 0
               THEN /\ ShowBox("info", "Cancelled")
                    /\ UNCHANGED <<scheduled_jobs, ui_entry>>
               ELSE UNCHANGED <<scheduled_jobs, ui_pc, ui_entry, ui_note>>
    /\ UNCHANGED <<now, jobs, job_obj, after_queue, sched_pc, scan_i, runnable,
                   pending, pass_done, launches, fired>>

\* mutant: cancelling a Job also ends the launches it triggered
CancelJob_EndsLaunch ==
    /\ ui_pc = "cancel_job"
    /\ TkQuiet
    /\ jobs' = RemoveFirst(jobs, ui_entry.job)
    /\ launches' = launches \ LaunchesOf(ui_entry.job)
    /\ ShowBox("info", "Job Cancelled")
    /\ ui_entry' = NoEntry
    /\ UNCHANGED <<now, scheduled_jobs, job_obj, after_queue, sched_pc, scan_i,
                   runnable, pending, pass_done, fired>>

\* mutant: the popped entry's Job stays in the scheduler's jobs
CancelJob_KeepsJob ==
    /\ ui_pc = "cancel_job"
    /\ TkQuiet
    /\ jobs' = jobs
    /\ ShowBox("info", "Job Cancelled")
    /\ ui_entry' = NoEntry
    /\ UNCHANGED <<now, scheduled_jobs, job_obj, after_queue, sched_pc, scan_i,
                   runnable, pending, pass_done, launches, fired>>

\* _show_scheduled_jobs from schedule.cancel_job(job): the Job is removed
\* from the scheduler's jobs (a Job that is not there is ignored) and the
\* "Job Cancelled" box is shown
CancelJob ==
    /\ ui_pc = "cancel_job"
    /\ TkQuiet
    /\ jobs' = RemoveFirst(jobs, ui_entry.job)
    /\ ShowBox("info", "Job Cancelled")
    /\ ui_entry' = NoEntry
    /\ UNCHANGED <<now, scheduled_jobs, job_obj, after_queue, sched_pc, scan_i,
                   runnable, pending, pass_done, launches, fired>>

\* the Tk event loop runs the oldest callback queued with
\* master.after(0, ...): the message box of a launcher is shown
RunAfter ==
    /\ after_queue # <<>>
    /\ after_queue' = Tail(after_queue)
    /\ UNCHANGED <<now, scheduled_jobs, jobs, job_obj, ui_pc, ui_entry, ui_note,
                   sched_pc, scan_i, runnable, pending, pass_done, launches, fired>>

----------------------------------------------------------------------------
(* The scheduler thread: _run_scheduler, `while True: run_pending(); sleep(1)` *)

\* Job.should_run
ShouldRun(j) == now >= job_obj[j].next_run

\* time.sleep(1) has ended and schedule.run_pending() is entered: the
\* generator over self.jobs starts at the first job
RunPendingBegin ==
    /\ sched_pc = "sleep"
    /\ TkQuiet
    /\ ~pass_done
    /\ sched_pc' = "scan"
    /\ scan_i' = 1
    /\ runnable' = <<>>
    /\ UNCHANGED <<now, scheduled_jobs, jobs, job_obj, ui_pc, ui_entry, ui_note,
                   after_queue, pending, pass_done, launches, fired>>

\* sorted(job for job in self.jobs if job.should_run) takes the next job of
\* self.jobs, as the list is at this moment
ScanStep ==
    /\ sched_pc = "scan"
    /\ TkQuiet
    /\ scan_i <= Len(jobs)
    /\ runnable' = IF ShouldRun(jobs[scan_i])
                   THEN Append(runnable, jobs[scan_i]) ELSE runnable
    /\ scan_i' = scan_i + 1
    /\ UNCHANGED <<now, scheduled_jobs, jobs, job_obj, ui_pc, ui_entry, ui_note,
                   after_queue, sched_pc, pending, pass_done, launches, fired>>

\* the generator is exhausted: the due jobs are sorted and the pass goes on
\* to run them; with none due, run_pending returns and the thread sleeps
ScanEnd ==
    /\ sched_pc = "scan"
    /\ TkQuiet
    /\ scan_i > Len(jobs)
    /\ pending' = SortedByNextRun(runnable, job_obj)
    /\ sched_pc' = IF runnable = <<>> THEN "sleep" ELSE "run"
    /\ pass_done' = (runnable = <<>>)
    /\ scan_i' = 0
    /\ runnable' = <<>>
    /\ UNCHANGED <<now, scheduled_jobs, jobs, job_obj, ui_pc, ui_entry, ui_note,
                   after_queue, launches, fired>>

\* _run_job(job) -> job.run() -> job_func(): _afk_watch is called on the
\* scheduler thread itself, with the channel and quality bound by do()
RunJob ==
    /\ sched_pc = "run"
    /\ TkQuiet
    /\ LET j == Head(pending) IN
       /\ AfkWatchBegin(j, job_obj[j].channel, job_obj[j].quality, "scheduler")
       /\ fired' = Append(fired, j)
    /\ sched_pc' = "launch"
    /\ UNCHANGED <<now, scheduled_jobs, jobs, job_obj, ui_pc, ui_entry, ui_note,
                   scan_i, runnable, pending, pass_done>>

\* mutant: an outcome other than Success leaves _afk_watch as an exception and
\* ends the scheduler thread
JobRunReturn_Escapes(o) ==
    /\ sched_pc = "launch"
    /\ TkQuiet
    /\ LET j == Head(pending) IN
       /\ \E l \in LaunchesOf(j) :
            /\ l.thread = "scheduler"
            /\ AfkWatchEnd(l, o)
       /\ job_obj' = [job_obj EXCEPT ![j].next_run = NextRun(job_obj[j].at_time, now)]
    /\ pending' = Tail(pending)
    /\ sched_pc' = IF o # "Success" THEN "dead"
                   ELSE IF Tail(pending) = <<>> THEN "sleep" ELSE "run"
    /\ pass_done' = (Tail(pending) = <<>>)
    /\ UNCHANGED <<now, scheduled_jobs, jobs, ui_pc, ui_entry, ui_note, scan_i,
                   runnable, fired>>

\* mutant: a job whose launch did not succeed is taken off the scheduler's
\* jobs and off scheduled_jobs
JobRunReturn_Unregisters(o) ==
    /\ sched_pc = "launch"
    /\ TkQuiet
    /\ LET j == Head(pending) IN
       /\ \E l \in LaunchesOf(j) :
            /\ l.thread = "scheduler"
            /\ AfkWatchEnd(l, o)
       /\ job_obj' = [job_obj EXCEPT ![j].next_run = NextRun(job_obj[j].at_time, now)]
       /\ jobs' = IF o = "Success" THEN jobs ELSE RemoveFirst(jobs, j)
       /\ scheduled_jobs' = IF o = "Success" THEN scheduled_jobs
                            ELSE SelectSeq(scheduled_jobs, LAMBDA e : e.job # j)
    /\ pending' = Tail(pending)
    /\ sched_pc' = IF Tail(pending) = <<>> THEN "sleep" ELSE "run"
    /\ pass_done' = (Tail(pending) = <<>>)
    /\ UNCHANGED <<now, ui_pc, ui_entry, ui_note, scan_i, runnable, fired>>

\* _afk_watch returns to job.run(): next_run is set to the next occurrence
\* (and last_run to now, which nothing reads afterwards), and the pass goes
\* on with the next due job or ends
JobRunReturn(o) ==
    /\ sched_pc = "launch"
    /\ TkQuiet
    /\ LET j == Head(pending) IN
       /\ \E l \in LaunchesOf(j) :
            /\ l.thread = "scheduler"
            /\ AfkWatchEnd(l, o)
       /\ job_obj' = [job_obj EXCEPT ![j].next_run = NextRun(job_obj[j].at_time, now)]
    /\ pending' = Tail(pending)
    /\ sched_pc' = IF Tail(pending) = <<>> THEN "sleep" ELSE "run"
    /\ pass_done' = (Tail(pending) = <<>>)
    /\ UNCHANGED <<now, scheduled_jobs, jobs, ui_pc, ui_entry, ui_note, scan_i,
                   runnable, fired>>

----------------------------------------------------------------------------
(* Worker threads and the clock *)

\* the _afk_watch of a "Start Watching Now" thread returns; the thread ends
WorkerReturn(o) ==
    /\ TkQuiet
    /\ \E l \in WorkersInFlight : AfkWatchEnd(l, o)
    /\ UNCHANGED <<now, scheduled_jobs, jobs, job_obj, ui_pc, ui_entry, ui_note,
                   sched_pc, scan_i, runnable, pending, pass_done, fired>>

\* The clock moves to the next instant. Python statements and queued Tk
\* callbacks take no time and message boxes are dismissed at once: the clock
\* moves only while every thread waits, the scheduler thread either in
\* time.sleep(1) after a pass made at this instant or in subprocess.run.
Tick ==
    /\ LaterTimes(now) # {}
    /\ ui_pc = "idle"
    /\ TkQuiet
    /\ \/ sched_pc = "launch"
       \/ sched_pc = "sleep" /\ pass_done
    /\ now' = NextTime(now)
    /\ pass_done' = FALSE
    /\ fired' = IF MinuteOf(NextTime(now)) = MinuteOf(now) THEN fired ELSE <<>>
    /\ UNCHANGED <<scheduled_jobs, jobs, job_obj, ui_pc, ui_entry, ui_note,
                   after_queue, sched_pc, scan_i, runnable, pending, launches>>

Next ==
    \/ \E f \in Forms : OnClickStart(f.channel, f.quality)
    \/ \E f \in Forms, t \in TimeTexts : ScheduleWatch(f.channel, f.quality, t)
    \/ ScheduleWatchAppend
    \/ \E k \in AskInteger(MaxAdds) : ShowScheduledJobs(k)
    \/ CancelJob
    \/ DismissBox
    \/ ReportCallbackException
    \/ RunAfter
    \/ RunPendingBegin
    \/ ScanStep
    \/ ScanEnd
    \/ RunJob
    \/ \E o \in Outcomes : JobRunReturn(o)
    \/ \E o \in Outcomes : WorkerReturn(o)
    \/ Tick

Spec == Init /\ [][Next]_vars

\* The button handlers alone, with longer lists: the steps of the Tk thread
\* while the scheduler thread sleeps and no launch is started
NextTk ==
    \/ \E f \in Forms, t \in TimeTexts :
          ScheduleWatchWithin(f.channel, f.quality, t, MaxListed)
    \/ ScheduleWatchAppend
    \/ \E k \in AskInteger(MaxListed) : ShowScheduledJobs(k)
    \/ CancelJob
    \/ DismissBox
    \/ ReportCallbackException

SpecTk == Init /\ [][NextTk]_vars

----------------------------------------------------------------------------
(* Claims *)

\* a well-formed 24-hour HH:MM text, 00:00 to 23:59
ValidHHMM(t) ==
    /\ Len(t) = 5
    /\ t[1] \in Digits /\ t[2] \in Digits /\ t[3] = ":"
    /\ t[4] \in Digits /\ t[5] \in Digits
    /\ 10 * DigitVal(t[1]) + DigitVal(t[2]) <= 23
    /\ 10 * DigitVal(t[4]) + DigitVal(t[5]) <= 59

\* the Tk thread leaves position p in this step
UiLeaves(p) == ui_pc = p /\ ui_pc' # p

\* C1: a click on "Schedule Watching" with a non-empty channel and a valid
\* HH:MM answer is not rejected and appends exactly one entry (that time,
\* the stripped channel, that quality) at the end of scheduled_jobs; the
\* list shows the entries in insertion order, one line per entry, duplicates
\* included.
C1_AddAppendsInOrder ==
    /\ [][\A f \in Forms, t \in TimeTexts :
            (ValidHHMM(t) /\ Strip(f.channel) # <<>>
                /\ ScheduleWatch(f.channel, f.quality, t))
            => /\ ui_pc' = "append"
               /\ ui_entry'.time = t
               /\ ui_entry'.channel = Strip(f.channel)
               /\ ui_entry'.quality = f.quality]_vars
    /\ [][UiLeaves("append")
            => /\ scheduled_jobs' = Append(scheduled_jobs, ui_entry)
               /\ ui_note' = Note("info", "Scheduled")]_vars
    /\ [](\A i, k \in DOMAIN scheduled_jobs :
            /\ i < k => scheduled_jobs[i].job < scheduled_jobs[k].job
            /\ JobList(scheduled_jobs)[i] =
                  <<i, scheduled_jobs[i].channel, scheduled_jobs[i].quality,
                    scheduled_jobs[i].time>>)

\* C1 witness: two adds of the same channel, quality and time have both
\* succeeded and both entries are listed
C1_Witness ==
    /\ ui_pc = "dialog" /\ ui_note = Note("info", "Scheduled")
    /\ Len(scheduled_jobs) = 2
    /\ scheduled_jobs[1].time = scheduled_jobs[2].time
    /\ scheduled_jobs[1].channel = scheduled_jobs[2].channel
    /\ scheduled_jobs[1].quality = scheduled_jobs[2].quality
    /\ scheduled_jobs[1].job # scheduled_jobs[2].job

\* C2: a click on "Schedule Watching" with a non-empty channel and a
\* non-empty answer that is no well-formed 24-hour HH:MM text shows the
\* "Invalid Time" error and leaves scheduled_jobs and the scheduler's jobs
\* as they were; every entry of scheduled_jobs has a well-formed time.
\* (An empty answer counts as a dismissed prompt and is left out.)
C2_MalformedTimeRejected ==
    /\ [][\A f \in Forms, t \in TimeTexts :
            (~ValidHHMM(t) /\ t # <<>> /\ Strip(f.channel) # <<>>
                /\ ScheduleWatch(f.channel, f.quality, t))
            => /\ ui_note' = Note("error", "Invalid Time")
               /\ (UNCHANGED <<scheduled_jobs, jobs>>)]_vars
    /\ [](\A i \in DOMAIN scheduled_jobs : ValidHHMM(scheduled_jobs[i].time))

\* C3: with an empty or all-blank channel, "Start Watching Now" and
\* "Schedule Watching" show the "Input Error" warning and start no launch,
\* add no entry and create no Job; every entry and every launch has a
\* non-empty channel.
C3_EmptyChannelRejected ==
    /\ [][\A f \in Forms, t \in TimeTexts :
            (Strip(f.channel) = <<>>
                /\ (OnClickStart(f.channel, f.quality)
                       \/ ScheduleWatch(f.channel, f.quality, t)))
            => /\ ui_note' = Note("warning", "Input Error")
               /\ (UNCHANGED <<scheduled_jobs, jobs, job_obj, launches, ui_entry>>)]_vars
    /\ [](/\ \A i \in DOMAIN scheduled_jobs : Strip(scheduled_jobs[i].channel) # <<>>
          /\ \A l \in launches : Strip(l.channel) # <<>>
          /\ ui_pc = "append" => Strip(ui_entry.channel) # <<>>)

\* C3 witness: the warning is shown after a click with a blank channel,
\* while an entry is registered and nothing was launched
C3_Witness ==
    /\ ui_pc = "dialog" /\ ui_note = Note("warning", "Input Error")
    /\ Len(scheduled_jobs) = 1 /\ Len(jobs) = 1 /\ launches = {}

\* C4: the number an entry is listed under when it is added is its handle:
\* a cancel with number k removes the entry that k was issued for and no
\* other, so a second cancel of k removes nothing.
C4_CancelRemovesTheHandlesEntry ==
    [][\A k \in AskInteger(MaxAdds) :
          (ShowScheduledJobs(k) /\ scheduled_jobs' # scheduled_jobs)
          => job_obj[ui_entry'.job].issued = k]_vars

\* C5: once schedule.cancel_job has removed a Job, the scheduler thread
\* starts no launch for it.
C5_NoLaunchAfterCancel ==
    [][(sched_pc = "run" /\ sched_pc' = "launch") => Head(pending) \notin Cancelled]_vars

\* C6: no job is launched twice within one wall-clock minute.
C6_OncePerMinute ==
    \A i, k \in DOMAIN fired : i # k => fired[i] # fired[k]

\* C6 witness: a job was launched in its minute, its launch has returned and
\* a later pass of the same minute has ended without launching it again
C6_Witness ==
    /\ TimeOfDay(now) = Hms(18, 30, 59)
    /\ sched_pc = "sleep" /\ pass_done
    /\ launches = {}
    /\ \E i \in DOMAIN fired :
         /\ fired[i] \in Range(jobs)
         /\ job_obj[fired[i]].next_run = (DayOf(now) + 1) * SecondsPerDay + Hms(18, 30, 0)

\* C7: when the minute of a registered job's next occurrence is over, a
\* launch of the job, with the channel and quality of its entry, has been
\* started in it (next_run moves on only when that launch returns).
C7_FiresInItsMinute ==
    \A i \in DOMAIN scheduled_jobs :
        LET e == scheduled_jobs[i] IN
        /\ now >= job_obj[e.job].next_run + 60
             => \E l \in LaunchesOf(e.job) : TRUE
        /\ \A l \in LaunchesOf(e.job) :
             l.channel = e.channel /\ l.quality = e.quality

\* C8: while the launch that a job triggered waits for the tool, the
\* scheduler thread is not the one waiting: the launch runs on a worker and
\* the tick loop goes on.
C8_FiringDoesNotBlockTheLoop ==
    \A l \in launches :
        l.job # NoJob => (l.thread = "worker" /\ sched_pc # "launch")

\* C9: no call of _afk_watch runs on the Tk thread: every launch in flight
\* belongs to a worker thread or to the scheduler thread, and the Tk thread
\* is in none of them.
C9_LaunchNeverOnTkThread ==
    /\ \A l \in launches : l.thread \in {"worker", "scheduler"}
    /\ Cardinality({ l \in launches : l.thread = "scheduler" })
         = (IF sched_pc = "launch" THEN 1 ELSE 0)

\* C9 witness: a start-now launch and a scheduled launch wait for the tool
\* and the Tk thread is idle
C9_Witness ==
    /\ ui_pc = "idle"
    /\ \E l \in launches : l.thread = "worker"
    /\ \E l \in launches : l.thread = "scheduler"

\* C10: from the start of a run_pending pass to its end, no add and no
\* cancel changes scheduled_jobs or the scheduler's jobs.
C10_RegistryFrozenDuringPass ==
    [][(sched_pc # "sleep") => (UNCHANGED <<scheduled_jobs, jobs>>)]_vars

\* C11: every outcome of a launch (Success, ToolExitedWithCode, ToolNotFound,
\* UnexpectedFailure) returns to run_pending: the scheduler thread goes on
\* with the next due job or sleeps, it is always at a position of its loop,
\* and from time.sleep(1) it enters the next pass.
C11_LoopSurvivesEveryOutcome ==
    /\ [][\A o \in Outcomes :
            JobRunReturn(o)
            => /\ sched_pc' = (IF Tail(pending) = <<>> THEN "sleep" ELSE "run")
               /\ after_queue' = Append(after_queue, OutcomeNote(o))]_vars
    /\ [](sched_pc \in {"sleep", "scan", "run", "launch"})
    /\ []((sched_pc = "sleep" /\ ~pass_done /\ TkQuiet) => ENABLED RunPendingBegin)
    /\ []((sched_pc = "launch" /\ TkQuiet) => \A o \in Outcomes : ENABLED JobRunReturn(o))

\* C11 witness: the launch of a job has just ended with the tool missing
\* (no start-now launch has ended in this step) and the pass is about to run
\* the next due job
C11_Witness ==
    /\ sched_pc = "run" /\ pending # <<>>
    /\ after_queue = <<OutcomeNote("ToolNotFound")>>
    /\ Cardinality(WorkersInFlight) = MaxStartNow

\* C12: every return of _afk_watch queues exactly one message box for its
\* outcome, an error box for every outcome but Success and an info box for
\* Success; and every click on "Schedule Watching" that registers nothing
\* ends in a message box shown to the user.
C12_EveryErrorNotified ==
    /\ [][\A o \in Outcomes :
            (JobRunReturn(o) \/ WorkerReturn(o))
            => /\ after_queue' = Append(after_queue, OutcomeNote(o))
               /\ (OutcomeNote(o).kind = "error") <=> (o # "Success")
               /\ (OutcomeNote(o).kind = "info") <=> (o = "Success")]_vars
    /\ [][\A f \in Forms, t \in TimeTexts :
            (ScheduleWatch(f.channel, f.quality, t) /\ ui_pc' # "append")
            => /\ ui_pc' = "dialog"
               /\ ui_note'.kind \in {"info", "warning", "error"}]_vars

\* C13: when the launch of a job that is still held by the scheduler returns,
\* whatever its outcome, the job is next due at the daily occurrence that
\* follows the one just fired: no day's occurrence is left out.
C13_NextOccurrenceIsNextDay ==
    [][\A o \in Outcomes :
          (JobRunReturn(o) /\ Head(pending) \in Range(jobs))
          => job_obj'[Head(pending)].next_run
               = job_obj[Head(pending)].next_run + SecondsPerDay]_vars

\* C14: of the jobs that a pass found due, none has to wait for the launch of
\* another to return: while a launch of the pass waits for the tool, every
\* other due job of the pass has its launch in flight as well.
C14_DueJobsLaunchTogether ==
    sched_pc = "launch"
    => \A i \in DOMAIN pending :
          \E l \in LaunchesOf(pending[i]) : l.thread # "tk"

\* C15: a click on "Start Watching Now", the start of a scheduled launch, the
\* return of a launch with any outcome, a queued message box and the passing
\* of time leave scheduled_jobs and the scheduler's jobs as they are; an
\* entry leaves scheduled_jobs only in a cancel with a number of the list.
C15_LaunchLeavesRegistry ==
    /\ [][(\/ \E f \in Forms : OnClickStart(f.channel, f.quality)
           \/ RunJob
           \/ \E o \in Outcomes : JobRunReturn(o)
           \/ \E o \in Outcomes : WorkerReturn(o)
           \/ RunAfter
           \/ Tick)
          => (UNCHANGED <<scheduled_jobs, jobs>>)]_vars
    /\ [][Len(scheduled_jobs') < Len(scheduled_jobs)
          => \E k \in 1..Len(scheduled_jobs) : ShowScheduledJobs(k)]_vars
    /\ [][Len(jobs') < Len(jobs) => CancelJob]_vars

\* C15 witness: the launch of the one registered job has just ended with the
\* tool's exit code, a start-now launch is in flight, and the entry and its
\* Job are still there
C15_Witness ==
    /\ sched_pc = "sleep"
    /\ after_queue = <<OutcomeNote("ToolExitedWithCode")>>
    /\ Cardinality(WorkersInFlight) = MaxStartNow
    /\ Len(fired) = 1
    /\ Len(scheduled_jobs) = 1 /\ scheduled_jobs[1].job = fired[1]
    /\ jobs = <<fired[1]>>

\* C16: a cancel (the pop and schedule.cancel_job) changes only
\* scheduled_jobs and the scheduler's jobs: the launches in flight, the
\* queued message boxes and the position of the scheduler thread stay as
\* they are; a launch of a cancelled job still returns with any of the
\* outcomes and queues the message box of its outcome.
C16_CancelLeavesLaunch ==
    /\ [][(CancelJob \/ \E k \in AskInteger(MaxAdds) : ShowScheduledJobs(k))
          => (UNCHANGED <<launches, after_queue, sched_pc, pending, job_obj>>)]_vars
    /\ []((sched_pc = "launch" /\ Head(pending) \in Cancelled /\ TkQuiet)
          => \A o \in Outcomes : ENABLED JobRunReturn(o))
    /\ [][\A o \in Outcomes :
            (JobRunReturn(o) /\ Head(pending) \in Cancelled)
            => /\ after_queue' = Append(after_queue, OutcomeNote(o))
               /\ launches' = launches \ LaunchesOf(Head(pending))]_vars

\* C16 witness: the only job ever scheduled was launched at 18:30:00 and was
\* cancelled at 18:30:59; the "Job Cancelled" box is open and the launch
\* still waits for the tool
C16_Witness ==
    /\ ui_pc = "dialog" /\ ui_note = Note("info", "Job Cancelled")
    /\ Len(job_obj) = 1 /\ jobs = <<>> /\ scheduled_jobs = <<>>
    /\ TimeOfDay(now) = Hms(18, 30, 59)
    /\ sched_pc = "launch" /\ pending = <<1>>
    /\ \E l \in LaunchesOf(1) : l.thread = "scheduler"

\* C17: with n entries listed, the answer k in 1..n to the cancel prompt
\* removes the k-th entry and keeps the others in their order, and
\* schedule.cancel_job then removes that entry's Job and no other; the answer
\* 0 and a dismissed prompt change neither list (the prompt returns no other
\* number); with no entry only the "Scheduled Jobs" box is shown.
C17_CancelByIndex ==
    /\ [][\A k \in 1..MaxListed :
            (ShowScheduledJobs(k) /\ k <= Len(scheduled_jobs))
            => /\ Len(scheduled_jobs') = Len(scheduled_jobs) - 1
               /\ \A i \in 1..(k - 1) : scheduled_jobs'[i] = scheduled_jobs[i]
               /\ \A i \in k..Len(scheduled_jobs') : scheduled_jobs'[i] = scheduled_jobs[i + 1]
               /\ ui_entry' = scheduled_jobs[k]
               /\ ui_pc' = "cancel_job"
               /\ jobs' = jobs]_vars
    /\ [][CancelJob
            => /\ jobs' = SelectSeq(jobs, LAMBDA j : j # ui_entry.job)
               /\ scheduled_jobs' = scheduled_jobs]_vars
    /\ [][\A k \in AskInteger(MaxListed) \cup {MaxListed + 1} :
            (ShowScheduledJobs(k) /\ (k \notin 1..Len(scheduled_jobs)))
            => /\ (UNCHANGED <<scheduled_jobs, jobs>>)
               /\ ui_pc' # "cancel_job"
               /\ scheduled_jobs = <<>> => ui_note' = Note("info", "Scheduled Jobs")]_vars

\* C17 witness: of three listed entries the second has just been popped; the
\* first and the third are left, in that order
C17_Witness ==
    /\ ui_pc = "cancel_job"
    /\ Len(job_obj) = 3 /\ jobs = <<1, 2, 3>>
    /\ ui_entry.job = 2
    /\ Len(scheduled_jobs) = 2
    /\ scheduled_jobs[1].job = 1 /\ scheduled_jobs[2].job = 3

\* C18: whenever the Tk thread is not between do() and append, nor between
\* pop and cancel_job, the Jobs of the listed entries are exactly the
\* scheduler's jobs, each once and in the same order, and each Job carries
\* the time, channel and quality of its entry.
C18_RegistryMatchesScheduler ==
    ui_pc \notin {"append", "cancel_job"}
    => /\ Len(jobs) = Len(scheduled_jobs)
       /\ \A i \in DOMAIN scheduled_jobs :
            LET e == scheduled_jobs[i] IN
            /\ jobs[i] = e.job
            /\ job_obj[e.job].at_time = AtTime(e.time)
            /\ job_obj[e.job].channel = e.channel
            /\ job_obj[e.job].quality = e.quality
       /\ \A i, k \in DOMAIN jobs : i # k => jobs[i] # jobs[k]

\* C18 witness: two entries were added and the first was cancelled; the
\* second entry and its Job are what is left
C18_Witness ==
    /\ ui_pc = "dialog" /\ ui_note = Note("info", "Job Cancelled")
    /\ Len(job_obj) = 2 /\ Cancelled = {1}
    /\ Len(scheduled_jobs) = 1 /\ scheduled_jobs[1].job = 2
    /\ jobs = <<2>>

====
